---- MODULE Spec2Model ----
(***************************************************************************)
(* A model of assignment4/assign4.py: the SST data loader, the vocabulary  *)
(* builder, the embedding loader with its cache file, the token-to-id      *)
(* conversion, the batch iterators and the training / eval-only loops.     *)
(*                                                                         *)
(* Strings that the code takes apart (phrases, tokens) are sequences of    *)
(* one-character strings.  A Python dict is a sequence of <<key, value>>   *)
(* pairs in insertion order.  None is the empty sequence, a present value  *)
(* v is <<v>>.  Scores are integers in hundredths (0.2 is 20).             *)
(***************************************************************************)
EXTENDS Integers, Sequences, FiniteSets, TLC

VARIABLES
    \* sentiment2label applied to two scores
    sx, sy, s_out,
    \* read_dictionary_txt_with_phrase_ids: the three input files and the result
    dictionary_file, phrase_ids_file, labels_file, rd_out,
    \* load_data_and_embeddings: the example collections of the current run,
    \* the provisional vocabulary, the embedding file and its .cache sibling
    \* (both outlive a run), the load_embeddings calls made so far, and the
    \* outcome of convert2ids
    datasets, vocab, emb_file, cache_file, le_calls, conv_out,
    \* a batch iterator (a generator object): its arguments, its position,
    \* the batch it has yielded and that its consumer has not taken yet, and
    \* the batches its consumer has taken in the current pass
    it_in, it, cur, yielded,
    \* where the consumer of the iterator is
    run_pc,
    \* run / run_twochannel: the options, the converted data, the loop's
    \* variables, the checkpoint and predictions files, and a record of what
    \* the run has done
    options, splits, step, best_val_acc, val_acc, ckpt_file, preds_dict,
    predictions_file, ran

s2lvars == <<sx, sy, s_out>>
rdvars == <<dictionary_file, phrase_ids_file, labels_file, rd_out>>
embvars == <<datasets, vocab, emb_file, cache_file, le_calls, conv_out>>
itvars == <<it_in, it, cur, yielded>>
runvars == <<options, splits, step, best_val_acc, val_acc, ckpt_file,
             preds_dict, predictions_file, ran>>
vars == <<s2lvars, rdvars, embvars, itvars, run_pc, runvars>>

-----------------------------------------------------------------------------
(* Bounds of the model *)

\* scores range from -ScoreMargin to S100 + ScoreMargin hundredths
ScoreMargin == 10
\* most lines of a dictionary file
MaxDict == 2
\* most lines of a label file (the header included)
MaxLab == 2
\* most lines of an embedding file
MaxLines == 3
\* most calls of load_embeddings on the same path
MaxCalls == 2
\* most examples of a dataset given to a batch iterator
MaxData == 3
\* largest batch size
MaxBatch == 3
\* most passes a forever iterator is followed for
MaxPasses == 2
\* largest max_steps of a training run
MaxSteps == 3
\* largest eval_every
MaxEvery == 2
\* log_every of a training run
LogEvery == 2
\* most examples of a test set, and largest batch size of an eval-only run
MaxTest == 2

-----------------------------------------------------------------------------
(* General helpers *)

None == << >>
Some(v) == <<v>>

Range(s) == {s[i] : i \in 1..Len(s)}

SeqsUpTo(S, n) == UNION {[1..k -> S] : k \in 0..n}

\* Python dict as a sequence of <<key, value>> pairs in insertion order
DictHas(d, k) == \E i \in 1..Len(d) : d[i][1] = k
DictGet(d, k) == d[CHOOSE i \in 1..Len(d) : d[i][1] = k][2]
\* d[k] = v: an existing key keeps its position, a new key goes last
DictSet(d, k, v) ==
    IF DictHas(d, k)
    THEN [i \in 1..Len(d) |-> IF d[i][1] = k THEN <<k, v>> ELSE d[i]]
    ELSE Append(d, <<k, v>>)
DictValues(d) == [i \in 1..Len(d) |-> d[i][2]]
DictKeys(d) == [i \in 1..Len(d) |-> d[i][1]]

\* the outcome of a call: a returned value or a raised exception
Return(v) == [exc |-> "", val |-> v]
Raise(e) == [exc |-> e, val |-> None]

-----------------------------------------------------------------------------
(* sentiment2label, lines 59-71 *)

S0 == 0
S20 == 20
S40 == 40
S60 == 60
S80 == 80
S100 == 100

sentiment2label_open(x) ==
    IF x > S0 /\ x < S20 THEN Return(0)
    ELSE IF x > S20 /\ x < S40 THEN Return(1)
    ELSE IF x > S40 /\ x < S60 THEN Return(2)
    ELSE IF x > S60 /\ x < S80 THEN Return(3)
    ELSE IF x > S80 /\ x < S100 THEN Return(4)
    ELSE Raise("ValueError")

sentiment2label(x) ==
    IF x >= S0 /\ x <= S20 THEN Return(0)
    ELSE IF x > S20 /\ x <= S40 THEN Return(1)
    ELSE IF x > S40 /\ x <= S60 THEN Return(2)
    ELSE IF x > S60 /\ x <= S80 THEN Return(3)
    ELSE IF x > S80 /\ x <= S100 THEN Return(4)
    ELSE Raise("ValueError")

ScoreRange == (S0 - ScoreMargin)..(S100 + ScoreMargin)

-----------------------------------------------------------------------------
(* read_dictionary_txt_with_phrase_ids, lines 74-115 *)

\* str.replace(old, new) for a one-character old
RECURSIVE replace(_, _, _)
replace(s, old, new) ==
    IF s = << >> THEN << >>
    ELSE (IF Head(s) = old THEN new ELSE <<Head(s)>>) \o replace(Tail(s), old, new)

\* str.split(sep) for a one-character sep: piece is the piece being read
RECURSIVE splitFrom(_, _, _)
splitFrom(s, sep, piece) ==
    IF s = << >> THEN <<piece>>
    ELSE IF Head(s) = sep THEN <<piece>> \o splitFrom(Tail(s), sep, << >>)
    ELSE splitFrom(Tail(s), sep, Append(piece, Head(s)))

split(s, sep) == splitFrom(s, sep, << >>)

LRB == <<"-", "L", "R", "B">>
RRB == <<"-", "R", "R", "B", "-">>

NewExample_label0(phrase, phrase_id) ==
    LET p == replace(replace(phrase, "(", LRB), ")", RRB)
    IN  [phrase |-> p, tokens |-> split(p, " "), example_id |-> phrase_id,
         label |-> Some(0)]

\* lines 91-95: the example of one dictionary line
NewExample(phrase, phrase_id) ==
    LET p == replace(replace(phrase, "(", LRB), ")", RRB)
    IN  [phrase |-> p, tokens |-> split(p, " "), example_id |-> phrase_id,
         label |-> None]

\* lines 83-96: the loop over the dictionary lines
RECURSIVE ReadDictLines(_, _, _)
ReadDictLines(lines, phrase_ids, examples_dict) ==
    IF lines = << >> THEN examples_dict
    ELSE LET line == Head(lines)
         IN  IF line.phrase_id \notin phrase_ids
             THEN ReadDictLines(Tail(lines), phrase_ids, examples_dict)
             ELSE ReadDictLines(Tail(lines), phrase_ids,
                      DictSet(examples_dict, line.phrase_id,
                              NewExample(line.phrase, line.phrase_id)))

\* float(parts[1]): a score field that is no number raises ValueError
ParseFloat(field) == IF field = None THEN Raise("ValueError") ELSE Return(field[1])

\* lines 100-109: the loop over the label lines, i the 0-based line number
RECURSIVE ReadLabelLines(_, _, _)
ReadLabelLines(lines, i, examples_dict) ==
    IF lines = << >> THEN Return(examples_dict)
    ELSE IF i = 0 THEN ReadLabelLines(Tail(lines), i + 1, examples_dict)
    ELSE LET line == Head(lines)
             sentiment == ParseFloat(line.score)
             label == sentiment2label(sentiment.val)
         IN  IF sentiment.exc # "" THEN Raise(sentiment.exc)
             ELSE IF label.exc # "" THEN Raise(label.exc)
             ELSE IF DictHas(examples_dict, line.phrase_id)
             THEN ReadLabelLines(Tail(lines), i + 1,
                      DictSet(examples_dict, line.phrase_id,
                              [DictGet(examples_dict, line.phrase_id)
                                  EXCEPT !.label = Some(label.val)]))
             ELSE ReadLabelLines(Tail(lines), i + 1, examples_dict)

\* labels is None (no labels_path) or Some(the lines of the label file)
read_dictionary_txt_with_phrase_ids(dict_lines, phrase_ids, labels) ==
    LET examples_dict == ReadDictLines(dict_lines, phrase_ids, << >>)
        labelled == IF labels = None THEN Return(examples_dict)
                    ELSE ReadLabelLines(labels[1], 0, examples_dict)
    IN  IF labelled.exc # "" THEN Raise(labelled.exc)
        ELSE Return(DictValues(labelled.val))

\* the inputs
PhraseIds == {"1", "2"}
Phrases == { <<"a", " ", "b">>, <<"(", " ", "a", ")">> }
DictLines == [phrase : Phrases, phrase_id : PhraseIds]
Header == [phrase_id |-> "phrase ids", score |-> None]
LabelScores == {5, 90, 150}
LabelLines == [phrase_id : PhraseIds, score : {Some(x) : x \in LabelScores}]
                  \cup {Header}

-----------------------------------------------------------------------------
(* build_vocab, lines 118-130.  Tokens are atomic strings from here on. *)

PAD_TOKEN == "_PAD_"
UNK_TOKEN == "_UNK_"

RECURSIVE Concat(_)
Concat(ss) == IF ss = << >> THEN << >> ELSE Head(ss) \o Concat(Tail(ss))

\* the words in the order the three nested loops (lines 122-124) visit them
TokensOf(data) == Concat([e \in 1..Len(data) |-> data[e].tokens])
AllTokens(dsets) == Concat([d \in 1..Len(dsets) |-> TokensOf(dsets[d])])

\* lines 125-126
AddWord(word, v) == IF ~DictHas(v, word) THEN DictSet(v, word, Len(v)) ELSE v

RECURSIVE AddWords(_, _)
AddWords(words, v) ==
    IF words = << >> THEN v ELSE AddWords(Tail(words), AddWord(Head(words), v))

build_vocab(dsets) ==
    LET v0 == << >>
        v1 == DictSet(v0, PAD_TOKEN, Len(v0))
        v2 == DictSet(v1, UNK_TOKEN, Len(v1))
    IN  AddWords(AllTokens(dsets), v2)

-----------------------------------------------------------------------------
(* convert2ids and TokenConverter, lines 133-152 *)

\* dict.get(key): None for a missing key
Get(d, k) == IF DictHas(d, k) THEN DictGet(d, k) ELSE None

convert_nocount(converter, token) ==
    IF DictHas(converter.vocab, token)
    THEN [id |-> Get(converter.vocab, token), converter |-> converter]
    ELSE [id |-> Get(converter.vocab, UNK_TOKEN), converter |-> converter]

\* TokenConverter.convert, lines 138-144: the id and the converter afterwards
convert(converter, token) ==
    IF DictHas(converter.vocab, token)
    THEN [id |-> Get(converter.vocab, token), converter |-> converter]
    ELSE [id |-> Get(converter.vocab, UNK_TOKEN),
          converter |-> [converter EXCEPT !.unknown = @ + 1]]

\* list(map(converter.convert, tokens)), line 150
RECURSIVE MapConvert(_, _, _)
MapConvert(converter, tokens, ids) ==
    IF tokens = << >> THEN [ids |-> ids, converter |-> converter]
    ELSE LET c == convert(converter, Head(tokens))
         IN  MapConvert(c.converter, Tail(tokens), Append(ids, c.id))

RECURSIVE ConvertExamples(_, _, _)
ConvertExamples(converter, data, done) ==
    IF data = << >> THEN [data |-> done, unknown |-> converter.unknown]
    ELSE LET m == MapConvert(converter, Head(data).tokens, << >>)
         IN  ConvertExamples(m.converter, Tail(data),
                 Append(done, [Head(data) EXCEPT !.tokens = m.ids]))

\* the converted data and the count that line 151 prints
convert2ids(data, v) ==
    ConvertExamples([vocab |-> v, unknown |-> 0], data, << >>)

-----------------------------------------------------------------------------
(* load_embeddings, lines 174-216.  A line of an embedding file is a word  *)
(* and its vector; a vector is one number, Zero the zero vector.           *)

Zero == 0

\* lines 188-195: the first pass over the lines of the file that is read
RECURSIVE FirstPass(_, _, _, _)
FirstPass(lines, v, rows, new_vocab) ==
    IF lines = << >> THEN Return([rows |-> rows, new_vocab |-> new_vocab])
    ELSE LET line == Head(lines)
         IN  IF line.word = UNK_TOKEN THEN Raise("ValueError")
             ELSE IF DictHas(v, line.word)
             THEN FirstPass(Tail(lines), v, Append(rows, line),
                            Append(new_vocab, line.word))
             ELSE FirstPass(Tail(lines), v, rows, new_vocab)

\* line 205: {w: i for i, w in enumerate(new_vocab)}
RECURSIVE Enumerate(_, _, _)
Enumerate(list, i, d) ==
    IF list = << >> THEN d
    ELSE Enumerate(Tail(list), i + 1, DictSet(d, Head(list), i))

CacheLines_skipfirst(rows) == IF rows = << >> THEN rows ELSE Tail(rows)

\* lines 199-201: what is written to the cache file
CacheLines(rows) == rows

\* line 209: the assertion
RowCheck(rows, new_vocab) == Len(rows) = Len(new_vocab) - 1

Matrix_shifted(rows, n) ==
    [i \in 1..n |-> IF i <= Len(rows) THEN rows[i].row ELSE Zero]

\* lines 212-214: embeddings[i + 1] = the vector of rows[i], as a sequence
\* whose element k is row k - 1 of the matrix
Matrix(rows, n) ==
    [i \in 1..n |-> IF 2 <= i /\ i - 1 <= Len(rows) THEN rows[i - 1].row ELSE Zero]

\* path_lines: the file at path; cache_lines: None or Some(the cache file).
\* Gives the outcome, the cache file afterwards and the path that was read
\* (line 183 makes it the cache path when the cache file exists).
load_embeddings(path_lines, cache_lines, v, cache) ==
    LET exists == cache_lines # None
        read == IF exists THEN "cache_path" ELSE "path"
        pass == FirstPass(IF exists THEN cache_lines[1] ELSE path_lines,
                          v, << >>, <<UNK_TOKEN>>)
        rows == pass.val.rows
        written == IF cache /\ ~exists THEN Some(CacheLines(rows)) ELSE cache_lines
        new_vocab == Enumerate(pass.val.new_vocab, 0, << >>)
    IN  IF pass.exc # ""
        THEN [out |-> Raise(pass.exc), cache_file |-> cache_lines, read |-> read]
        ELSE IF ~RowCheck(rows, new_vocab)
        THEN [out |-> Raise("AssertionError"), cache_file |-> written, read |-> read]
        ELSE [out |-> Return([new_vocab |-> new_vocab,
                              embeddings |-> Matrix(rows, Len(new_vocab))]),
              cache_file |-> written, read |-> read]

\* the inputs
Ex(t) == [tokens |-> t]
DataOptions ==
    { << <<Ex(<<"a", "b">>)>>, <<Ex(<<"c", "a">>)>>, << >> >>,
      << <<Ex(<<"b">>), Ex(<<"b", "a">>)>> >>,
      << <<Ex(<<"c">>)>>, <<Ex(<<"_UNK_", "c">>)>> >>,
      << <<Ex(<<"a">>)>>, <<Ex(<<"_PAD_">>)>> >> }
FileWords == {"a", "b", PAD_TOKEN, UNK_TOKEN}
Vectors == {1, 2}
EmbLines == [word : FileWords, row : Vectors]

-----------------------------------------------------------------------------
(* Batch iterators: prepare_data, prepare_labels, batch_iterator and       *)
(* batches_iterator, lines 221-299.  An example has tokens (ids by now), a *)
(* label (None or Some) and an example_id.                                 *)

Max(S) == CHOOSE m \in S : \A x \in S : x <= m

\* line 224: ex + [0] * (maxlen - len(ex))
Pad(ex, maxlen) == ex \o [k \in 1..(maxlen - Len(ex)) |-> 0]

\* lines 221-227: the padded grid, one row per example
prepare_data(data) ==
    LET maxlen == Max({Len(data[k]) : k \in 1..Len(data)})
    IN  [k \in 1..Len(data) |-> Pad(data[k], maxlen)]

\* lines 230-234: a tensor of the labels, or the list itself when
\* torch.LongTensor refuses it (a None among the labels)
prepare_labels(labels) ==
    IF \A k \in 1..Len(labels) : labels[k] # None
    THEN [tensor |-> TRUE, values |-> [k \in 1..Len(labels) |-> labels[k][1]]]
    ELSE [tensor |-> FALSE, values |-> labels]

\* random.sample(range(n), n), lines 243, 276: any order of 0..n-1
Orders(n) ==
    {o \in [1..n -> 0..(n - 1)] : \A i, j \in 1..n : o[i] = o[j] => i = j}

\* order[start:end], 0-based and end-exclusive, clipped to the list
Slice(order, start, end) ==
    LET hi == IF end < Len(order) THEN end ELSE Len(order)
    IN  [k \in 1..(hi - start) |-> order[start + k]]

\* [dataset[ii] for ii in order[start:end]], lines 246, 279
Select(dataset, idx) == [k \in 1..Len(idx) |-> dataset[idx[k] + 1]]

\* get_batch of batch_iterator, lines 278-283; idx records the slice of the
\* order the batch was built from
get_batch(dataset, order, start, end) ==
    LET idx == Slice(order, start, end)
        batch == Select(dataset, idx)
    IN  [data |-> prepare_data([k \in 1..Len(batch) |-> batch[k].tokens]),
         labels |-> prepare_labels([k \in 1..Len(batch) |-> batch[k].label]),
         example_ids |-> [k \in 1..Len(batch) |-> batch[k].example_id],
         idx |-> idx]

get_batches_ownslice(dsets, order, start, end) ==
    LET idx == Slice(order, start, end)
        rev == [k \in 1..Len(idx) |-> idx[Len(idx) + 1 - k]]
        batches == [c \in 1..Len(dsets) |->
                       Select(dsets[c], IF c = 1 THEN idx ELSE rev)]
    IN  [data |-> [c \in 1..Len(dsets) |->
                      prepare_data([k \in 1..Len(batches[c]) |-> batches[c][k].tokens])],
         labels |-> prepare_labels([k \in 1..Len(batches[1]) |-> batches[1][k].label]),
         example_ids |-> [k \in 1..Len(batches[1]) |-> batches[1][k].example_id],
         idx |-> idx]

\* get_batch of batches_iterator, lines 245-251: data stacks one grid per
\* dataset, labels and example_ids come from the first dataset
get_batches(dsets, order, start, end) ==
    LET idx == Slice(order, start, end)
        batches == [c \in 1..Len(dsets) |-> Select(dsets[c], idx)]
    IN  [data |-> [c \in 1..Len(dsets) |->
                      prepare_data([k \in 1..Len(batches[c]) |-> batches[c][k].tokens])],
         labels |-> prepare_labels([k \in 1..Len(batches[1]) |-> batches[1][k].label]),
         example_ids |-> [k \in 1..Len(batches[1]) |-> batches[1][k].example_id],
         idx |-> idx]

\* the generator's arguments: several datasets for batches_iterator (two),
\* one for batch_iterator
Iterator(dsets, two, batch_size, forever) ==
    [datasets |-> dsets, two |-> two, batch_size |-> batch_size,
     forever |-> forever]

\* lines 238, 271 and 240, 273
dataset_size == Len(it_in.datasets[1])
nbatches == dataset_size \div it_in.batch_size

Batch(start, end) ==
    IF it_in.two THEN get_batches(it_in.datasets, it.order, start, end)
    ELSE get_batch(it_in.datasets[1], it.order, start, end)

\* what no step of a generator changes
IterFrame == <<it_in, run_pc, runvars, s2lvars, rdvars, embvars>>

\* the generator runs only while its consumer waits for the next batch
Pulling == cur = None /\ run_pc \in {"collect", "draw", "test_draw"}

\* lines 253, 285: the first order
IterStart ==
    /\ Pulling /\ it.pc = "start"
    /\ \E o \in Orders(dataset_size) :
          it' = [it EXCEPT !.pc = "for", !.i = 0, !.order = o, !.pass = 1]
    /\ UNCHANGED <<cur, yielded, IterFrame>>

\* lines 256-259, 288-291: the next full batch of the pass
IterYieldFull ==
    /\ Pulling /\ it.pc = "for" /\ it.i < nbatches
    /\ cur' = Some(Batch(it.i * it_in.batch_size, (it.i + 1) * it_in.batch_size))
    /\ it' = [it EXCEPT !.i = @ + 1]
    /\ UNCHANGED <<yielded, IterFrame>>

IterYieldRemainder_dropped ==
    /\ Pulling /\ it.pc = "for" /\ it.i = nbatches
    /\ it' = [it EXCEPT !.pc = "passed"]
    /\ UNCHANGED <<cur, yielded, IterFrame>>

\* lines 261-262, 293-294: the remainder batch, if there is one
IterYieldRemainder ==
    /\ Pulling /\ it.pc = "for" /\ it.i = nbatches
    /\ IF nbatches * it_in.batch_size < dataset_size
       THEN cur' = Some(Batch(nbatches * it_in.batch_size, dataset_size))
       ELSE cur' = cur
    /\ it' = [it EXCEPT !.pc = "passed"]
    /\ UNCHANGED <<yielded, IterFrame>>

\* lines 264-265, 296-297: one pass only
IterBreak ==
    /\ Pulling /\ it.pc = "passed" /\ ~it_in.forever
    /\ it' = [it EXCEPT !.pc = "stopped"]
    /\ UNCHANGED <<cur, yielded, IterFrame>>

\* lines 267, 299: a fresh order and the next pass
IterReshuffle ==
    /\ Pulling /\ it.pc = "passed" /\ it_in.forever
    /\ run_pc = "collect" => it.pass < MaxPasses
    /\ \E o \in Orders(dataset_size) :
          it' = [it EXCEPT !.pc = "for", !.i = 0, !.order = o, !.pass = @ + 1]
    /\ yielded' = << >>
    /\ UNCHANGED <<cur, IterFrame>>

ItStart == [pc |-> "start", i |-> 0, order |-> << >>, pass |-> 0]

\* the inputs: examples of three lengths, two of them with the same id
Example(t, l, id) == [tokens |-> t, label |-> l, example_id |-> id]
ExamplePool ==
    { Example(<<1>>, Some(0), "p1"),
      Example(<<2, 1>>, Some(4), "p2"),
      Example(<<1, 1, 2>>, None, "p1") }

-----------------------------------------------------------------------------
(* run and run_twochannel, lines 523-611, from the point where the data is *)
(* loaded and step and best_val_acc are set (lines 534-535, 578-579), with *)
(* run_test and run_test_2channel, lines 490-520.  Accuracies are whole    *)
(* per cent.  The model, the optimizer and run_validation's count of       *)
(* correct predictions are outside the program: a prediction and a         *)
(* validation accuracy are any value of a small set.                       *)

Accs == {0, 40, 50, 55, 60}
PredLabels == {0, 4}

\* what a run has done so far: checkpoint loads, batches drawn, the steps
\* at which the optimizer stepped, <<step, accuracy>> of each validation
\* pass, <<step, accuracy>> of each checkpoint write, the events of the
\* current step in order, and <<id, prediction>> of each test example in
\* iteration order
RanNothing ==
    [loads |-> 0, draws |-> 0, opt_steps |-> << >>, vals |-> << >>,
     writes |-> << >>, events |-> << >>, preds |-> << >>]

\* the second channel's data: the same examples under another vocabulary
Channel2(dataset) ==
    [k \in 1..Len(dataset) |->
        [dataset[k] EXCEPT !.tokens = [t \in 1..Len(@) |-> @[t] + 2]]]

Channels(dataset, two) ==
    IF two THEN <<dataset, Channel2(dataset)>> ELSE <<dataset>>

\* <<size of the training set, batch size>>: a batch per example, two
\* batches a pass, a batch larger than the set, a batch that is the set
TrainShapes == {<<1, 1>>, <<2, 1>>, <<1, 2>>, <<2, 2>>}

\* a labelled training set of n examples, example k with k tokens
TrainSet(n) == [k \in 1..n |-> Example([t \in 1..k |-> 1], Some(k % 5), k)]

RunFrame == <<s2lvars, rdvars, embvars, options, splits>>

\* lines 581-583 and 537-539: load_model; torch.load raises when there is
\* no checkpoint file
LoadModel ==
    /\ run_pc = "start" /\ options.eval_only_mode
    /\ IF ckpt_file = None
       THEN /\ run_pc' = "error"
            /\ UNCHANGED <<step, best_val_acc, ran>>
       ELSE /\ step' = ckpt_file[1].step
            /\ best_val_acc' = ckpt_file[1].val_acc
            /\ ran' = [ran EXCEPT !.loads = @ + 1]
            /\ run_pc' = "test"
    /\ UNCHANGED <<itvars, val_acc, ckpt_file, preds_dict, predictions_file,
                   RunFrame>>

\* lines 493-495 and 510-512: preds_dict and the iterator over the test set
RunTestBegin ==
    /\ run_pc = "test"
    /\ preds_dict' = << >>
    /\ it_in' = Iterator(splits.test, options.two_channel, options.batch_size, FALSE)
    /\ it' = ItStart /\ cur' = None /\ yielded' = << >>
    /\ run_pc' = "test_draw"
    /\ UNCHANGED <<step, best_val_acc, val_acc, ckpt_file, predictions_file, ran,
                   RunFrame>>

RECURSIVE SetAll(_, _, _)
SetAll_keepfirst(d, ids, preds) ==
    IF ids = << >> THEN d
    ELSE SetAll(IF DictHas(d, Head(ids)) THEN d ELSE DictSet(d, Head(ids), Head(preds)),
                Tail(ids), Tail(preds))

\* for id, pred in zip(example_ids, preds): preds_dict[id] = pred
SetAll(d, ids, preds) ==
    IF ids = << >> THEN d
    ELSE SetAll(DictSet(d, Head(ids), Head(preds)), Tail(ids), Tail(preds))

\* lines 495-500 and 512-516: the body of the test loop for one batch
TestBatch ==
    /\ run_pc = "test_draw" /\ cur # None
    /\ \E preds \in [1..Len(cur[1].example_ids) -> PredLabels] :
          /\ preds_dict' = SetAll(preds_dict, cur[1].example_ids, preds)
          /\ ran' = [ran EXCEPT !.preds = @ \o
                        [k \in 1..Len(preds) |-> <<cur[1].example_ids[k], preds[k]>>]]
    /\ cur' = None
    /\ UNCHANGED <<it_in, it, yielded, step, best_val_acc, val_acc, ckpt_file,
                   predictions_file, run_pc, RunFrame>>

\* lines 502-504 and 518-520, then sys.exit (lines 585, 541)
WritePredictions ==
    /\ run_pc = "test_draw" /\ it.pc = "stopped"
    /\ predictions_file' = Some(preds_dict)
    /\ run_pc' = "exit"
    /\ UNCHANGED <<itvars, step, best_val_acc, val_acc, ckpt_file, preds_dict, ran,
                   RunFrame>>

\* lines 587 and 543: the iterator over the training set, forever
TrainBegin ==
    /\ run_pc = "start" /\ ~options.eval_only_mode
    /\ it_in' = Iterator(splits.train, options.two_channel, options.batch_size, TRUE)
    /\ it' = ItStart /\ cur' = None /\ yielded' = << >>
    /\ run_pc' = "draw"
    /\ UNCHANGED <<step, best_val_acc, val_acc, ckpt_file, preds_dict,
                   predictions_file, ran, RunFrame>>

Exceeds_ge(s, max_steps) == s >= max_steps

\* lines 589 and 545
Exceeds(s, max_steps) == s > max_steps

\* lines 587-590 and 543-546: the next batch, and the exit once the step
\* count exceeds max_steps
Draw ==
    /\ run_pc = "draw" /\ cur # None
    /\ cur' = None
    /\ ran' = [ran EXCEPT !.draws = @ + 1, !.events = <<"draw">>]
    /\ run_pc' = IF Exceeds(step, options.max_steps) THEN "exit" ELSE "train"
    /\ UNCHANGED <<it_in, it, yielded, step, best_val_acc, val_acc, ckpt_file,
                   preds_dict, predictions_file, RunFrame>>

TrainBatch_step_first ==
    /\ run_pc = "train"
    /\ ran' = [ran EXCEPT
                  !.opt_steps = Append(@, step),
                  !.events = @ \o <<"forward", "opt_step", "zero_grad", "backward">>
                               \o (IF step % options.log_every = 0
                                   THEN <<"log">> ELSE << >>)]
    /\ run_pc' = "eval"
    /\ UNCHANGED <<itvars, step, best_val_acc, val_acc, ckpt_file, preds_dict,
                   predictions_file, RunFrame>>

\* lines 591-600 and 547-556: forward pass and loss, the three optimizer
\* calls, and the log line every log_every steps
TrainBatch ==
    /\ run_pc = "train"
    /\ ran' = [ran EXCEPT
                  !.opt_steps = Append(@, step),
                  !.events = @ \o <<"forward", "zero_grad", "backward", "opt_step">>
                               \o (IF step % options.log_every = 0
                                   THEN <<"log">> ELSE << >>)]
    /\ run_pc' = "eval"
    /\ UNCHANGED <<itvars, step, best_val_acc, val_acc, ckpt_file, preds_dict,
                   predictions_file, RunFrame>>

\* lines 602-603 and 558-559: a validation pass every eval_every steps
Validate ==
    /\ run_pc = "eval" /\ step % options.eval_every = 0
    /\ \E a \in Accs :
          /\ val_acc' = Some(a)
          /\ ran' = [ran EXCEPT !.vals = Append(@, <<step, a>>),
                                !.events = Append(@, "validate")]
    /\ run_pc' = "ckpt"
    /\ UNCHANGED <<itvars, step, best_val_acc, ckpt_file, preds_dict,
                   predictions_file, RunFrame>>

SkipValidation ==
    /\ run_pc = "eval" /\ step % options.eval_every # 0
    /\ run_pc' = "incr"
    /\ UNCHANGED <<itvars, step, best_val_acc, val_acc, ckpt_file, preds_dict,
                   predictions_file, ran, RunFrame>>

Improved_ge(acc, best) == acc >= best

\* lines 606 and 562
Improved(acc, best) == acc > best

\* lines 606-609 and 562-565: checkpoint_model on a new best accuracy
Checkpoint ==
    /\ run_pc = "ckpt"
    /\ IF Improved(val_acc[1], best_val_acc)
       THEN /\ best_val_acc' = val_acc[1]
            /\ ckpt_file' = Some([step |-> step, val_acc |-> val_acc[1]])
            /\ ran' = [ran EXCEPT !.writes = Append(@, <<step, val_acc[1]>>),
                                  !.events = Append(@, "checkpoint")]
       ELSE UNCHANGED <<best_val_acc, ckpt_file, ran>>
    /\ run_pc' = "incr"
    /\ UNCHANGED <<itvars, step, val_acc, preds_dict, predictions_file, RunFrame>>

\* lines 611 and 567
Increment ==
    /\ run_pc = "incr"
    /\ step' = step + 1
    /\ ran' = [ran EXCEPT !.events = Append(@, "increment")]
    /\ run_pc' = "draw"
    /\ UNCHANGED <<itvars, best_val_acc, val_acc, ckpt_file, preds_dict,
                   predictions_file, RunFrame>>

-----------------------------------------------------------------------------
(* Idle values of each component's variables *)

S2LIdle == sx = 0 /\ sy = 0 /\ s_out = None
RDIdle ==
    /\ dictionary_file = << >>
    /\ phrase_ids_file = {}
    /\ labels_file = None
    /\ rd_out = None
EmbIdle ==
    /\ datasets = << >>
    /\ vocab = None
    /\ emb_file = << >>
    /\ cache_file = None
    /\ le_calls = << >>
    /\ conv_out = None
ItIdle ==
    /\ it_in = Iterator(<< << >> >>, FALSE, 1, FALSE)
    /\ it = ItStart
    /\ cur = None
    /\ yielded = << >>
RunIdle ==
    /\ options = << >>
    /\ splits = << >>
    /\ step = 0
    /\ best_val_acc = 0
    /\ val_acc = None
    /\ ckpt_file = None
    /\ preds_dict = << >>
    /\ predictions_file = None
    /\ ran = << >>

-----------------------------------------------------------------------------
(* Specification SpecLabel: sentiment2label applied to two scores *)

InitLabel ==
    /\ sx \in ScoreRange
    /\ sy \in ScoreRange
    /\ s_out = None
    /\ RDIdle
    /\ EmbIdle
    /\ ItIdle /\ run_pc = "idle" /\ RunIdle

ApplyLabel ==
    /\ s_out = None
    /\ s_out' = Some(<<sentiment2label(sx), sentiment2label(sy)>>)
    /\ UNCHANGED <<sx, sy, rdvars, embvars, itvars, run_pc, runvars>>

NextLabel == ApplyLabel

SpecLabel == InitLabel /\ [][NextLabel]_vars

-----------------------------------------------------------------------------
(* Specification SpecData: one call of read_dictionary_txt_with_phrase_ids *)

InitData ==
    /\ dictionary_file \in SeqsUpTo(DictLines, MaxDict)
    /\ phrase_ids_file \in SUBSET PhraseIds
    /\ labels_file \in {None} \cup {Some(l) : l \in SeqsUpTo(LabelLines, MaxLab)}
    /\ rd_out = None
    /\ S2LIdle
    /\ EmbIdle
    /\ ItIdle /\ run_pc = "idle" /\ RunIdle

ReadDictionary ==
    /\ rd_out = None
    /\ rd_out' = Some(read_dictionary_txt_with_phrase_ids(
                          dictionary_file, phrase_ids_file, labels_file))
    /\ UNCHANGED <<dictionary_file, phrase_ids_file, labels_file, s2lvars, embvars,
                   itvars, run_pc, runvars>>

NextData == ReadDictionary

SpecData == InitData /\ [][NextData]_vars

-----------------------------------------------------------------------------
(* Specification SpecEmb: runs of load_data_and_embeddings (lines 155-171) *)
(* that share one embeddings path.  A run builds the vocabulary of its     *)
(* data, calls load_embeddings with cache=True and converts its data with  *)
(* the vocabulary that call returned; the files outlive the run.           *)

InitEmb ==
    /\ datasets \in DataOptions
    /\ vocab = None
    /\ emb_file \in SeqsUpTo(EmbLines, MaxLines)
    /\ cache_file = None
    /\ le_calls = << >>
    /\ conv_out = None
    /\ S2LIdle
    /\ RDIdle
    /\ ItIdle /\ run_pc = "idle" /\ RunIdle

\* line 166
BuildVocab ==
    /\ vocab = None
    /\ vocab' = Some(build_vocab(datasets))
    /\ UNCHANGED <<datasets, emb_file, cache_file, le_calls, conv_out,
                   s2lvars, rdvars, itvars, run_pc, runvars>>

\* whether the current run has made its call of load_embeddings
Loaded == le_calls # << >> /\ le_calls[Len(le_calls)].run_done = FALSE

\* line 167
LoadEmbeddings ==
    /\ vocab # None
    /\ ~Loaded
    /\ Len(le_calls) < MaxCalls
    /\ LET r == load_embeddings(emb_file, cache_file, vocab[1], TRUE)
       IN  /\ cache_file' = r.cache_file
           /\ le_calls' = Append(le_calls,
                  [vocab |-> vocab[1], cache_before |-> cache_file,
                   cache_after |-> r.cache_file, read |-> r.read,
                   out |-> r.out, run_done |-> FALSE])
    /\ UNCHANGED <<datasets, vocab, emb_file, conv_out, s2lvars, rdvars,
                   itvars, run_pc, runvars>>

\* lines 168-170
Convert ==
    /\ Loaded
    /\ conv_out = None
    /\ le_calls[Len(le_calls)].out.exc = ""
    /\ LET nv == le_calls[Len(le_calls)].out.val.new_vocab
       IN  conv_out' = Some([d \in 1..Len(datasets) |-> convert2ids(datasets[d], nv)])
    /\ UNCHANGED <<datasets, vocab, emb_file, cache_file, le_calls,
                   s2lvars, rdvars, itvars, run_pc, runvars>>

\* the process ends (its call raised, or its data is converted) and the
\* program is started again on the same embeddings path with some data
NewRun ==
    /\ Loaded
    /\ conv_out # None \/ le_calls[Len(le_calls)].out.exc # ""
    /\ Len(le_calls) < MaxCalls
    /\ datasets' \in DataOptions
    /\ vocab' = None
    /\ conv_out' = None
    /\ le_calls' = [le_calls EXCEPT ![Len(le_calls)].run_done = TRUE]
    /\ UNCHANGED <<emb_file, cache_file, s2lvars, rdvars, itvars, run_pc,
                   runvars>>

NextEmb == BuildVocab \/ LoadEmbeddings \/ Convert \/ NewRun

SpecEmb == InitEmb /\ [][NextEmb]_vars

-----------------------------------------------------------------------------
(* Specification SpecIter: batch_iterator(dataset, batch_size, forever)    *)
(* driven by a for loop that only takes the batches                        *)

InitIter ==
    /\ \E d \in SeqsUpTo(ExamplePool, MaxData), b \in 1..MaxBatch, f \in BOOLEAN :
          it_in = Iterator(<<d>>, FALSE, b, f)
    /\ it = ItStart
    /\ cur = None
    /\ yielded = << >>
    /\ run_pc = "collect"
    /\ S2LIdle /\ RDIdle /\ EmbIdle /\ RunIdle

Others == <<s2lvars, rdvars, embvars, runvars>>

\* the body of the for loop: take the batch
Collect ==
    /\ run_pc = "collect" /\ cur # None
    /\ yielded' = Append(yielded, cur[1])
    /\ cur' = None
    /\ UNCHANGED <<it_in, it, run_pc, Others>>

\* StopIteration ends the for loop
CollectEnd ==
    /\ run_pc = "collect" /\ it.pc = "stopped"
    /\ run_pc' = "exit"
    /\ UNCHANGED <<itvars, Others>>

NextIter ==
    \/ IterStart
    \/ IterYieldFull
    \/ IterYieldRemainder
    \/ IterBreak
    \/ IterReshuffle
    \/ Collect
    \/ CollectEnd

SpecIter == InitIter /\ [][NextIter]_vars

-----------------------------------------------------------------------------
(* Specification SpecIter2: batches_iterator(datasets, batch_size,         *)
(* forever) on the two datasets run_twochannel gives it (lines 525-529,    *)
(* 543): the same examples converted under two vocabularies                *)

InitIter2 ==
    /\ \E d \in SeqsUpTo(ExamplePool, MaxData), b \in 1..MaxBatch, f \in BOOLEAN :
          it_in = Iterator(Channels(d, TRUE), TRUE, b, f)
    /\ it = ItStart
    /\ cur = None
    /\ yielded = << >>
    /\ run_pc = "collect"
    /\ S2LIdle /\ RDIdle /\ EmbIdle /\ RunIdle

NextIter2 ==
    \/ IterStart
    \/ IterYieldFull
    \/ IterYieldRemainder
    \/ IterBreak
    \/ IterReshuffle
    \/ Collect
    \/ CollectEnd

SpecIter2 == InitIter2 /\ [][NextIter2]_vars

-----------------------------------------------------------------------------
(* Specification SpecEval: run / run_twochannel with --eval_only_mode *)

RunStart ==
    /\ it_in = Iterator(<< << >> >>, FALSE, 1, FALSE)
    /\ it = ItStart /\ cur = None /\ yielded = << >>
    /\ run_pc = "start"
    /\ step = 0
    /\ best_val_acc = 0
    /\ val_acc = None
    /\ preds_dict = << >>
    /\ predictions_file = None
    /\ ran = RanNothing
    /\ S2LIdle /\ RDIdle /\ EmbIdle

SavedCheckpoint == [step |-> 2, val_acc |-> 55]

InitEval ==
    /\ \E two \in BOOLEAN, b \in 1..MaxTest :
          options = [max_steps |-> 0, eval_every |-> 1, log_every |-> 1,
                     eval_only_mode |-> TRUE, two_channel |-> two, batch_size |-> b]
    /\ \E d \in SeqsUpTo(ExamplePool, MaxTest) :
          splits = [train |-> Channels(TrainSet(1), options.two_channel),
                    test |-> Channels(d, options.two_channel)]
    /\ ckpt_file \in {None, Some(SavedCheckpoint)}
    /\ RunStart

NextEval ==
    \/ LoadModel
    \/ RunTestBegin
    \/ IterStart
    \/ IterYieldFull
    \/ IterYieldRemainder
    \/ IterBreak
    \/ TestBatch
    \/ WritePredictions

SpecEval == InitEval /\ [][NextEval]_vars

-----------------------------------------------------------------------------
(* Specification SpecTrain: run / run_twochannel in training mode.  The    *)
(* program is one sequential process, so a step that can be taken is taken *)

InitTrain ==
    /\ \E n \in 0..MaxSteps, m \in 1..MaxEvery,
          two \in BOOLEAN, shape \in TrainShapes :
          /\ options = [max_steps |-> n, eval_every |-> m, log_every |-> LogEvery,
                        eval_only_mode |-> FALSE, two_channel |-> two,
                        batch_size |-> shape[2]]
          /\ splits = [train |-> Channels(TrainSet(shape[1]), two),
                       test |-> Channels(<< >>, two)]
    /\ ckpt_file = None
    /\ RunStart

NextTrain ==
    \/ TrainBegin
    \/ IterStart
    \/ IterYieldFull
    \/ IterYieldRemainder
    \/ IterReshuffle
    \/ Draw
    \/ TrainBatch
    \/ Validate
    \/ SkipValidation
    \/ Checkpoint
    \/ Increment

SpecTrain == InitTrain /\ [][NextTrain]_vars /\ WF_vars(NextTrain)

-----------------------------------------------------------------------------
(* Claims *)

\* C8: sentiment2label returns 0 on [0, 0.2], 1 on (0.2, 0.4], 2 on
\* (0.4, 0.6], 3 on (0.6, 0.8] and 4 on (0.8, 1], so it is total on [0, 1]
\* with exactly one label in 0..4 and non-decreasing there; every score
\* below 0 or above 1 raises ValueError and yields no label.
StepLabel(x) ==
    IF x <= 20 THEN 0 ELSE IF x <= 40 THEN 1 ELSE IF x <= 60 THEN 2
    ELSE IF x <= 80 THEN 3 ELSE 4

InUnit(x) == 0 <= x /\ x <= 100

C8_SentimentStep ==
    s_out # None =>
        LET rx == s_out[1][1]
            ry == s_out[1][2]
        IN  /\ InUnit(sx) => rx = Return(StepLabel(sx)) /\ rx.val \in 0..4
            /\ ~InUnit(sx) => rx.exc = "ValueError" /\ rx.val = None
            /\ InUnit(sy) => ry = Return(StepLabel(sy))
            /\ ~InUnit(sy) => ry.exc = "ValueError" /\ ry.val = None
            /\ (InUnit(sx) /\ InUnit(sy) /\ sx <= sy) => rx.val <= ry.val
            /\ (sx = sy) => rx = ry

\* C8 witness: the boundary 0.2 gets 0 and the next score gets 1
C8_Witness ==
    /\ s_out # None
    /\ sx = 20 /\ sy = 21
    /\ s_out[1][1] = Return(0) /\ s_out[1][2] = Return(1)

\* C9 helpers: the dictionary lines with a permitted id, the score lines
\* (all but the first line of the label file) of an id
PermittedLines ==
    {i \in 1..Len(dictionary_file) :
        dictionary_file[i].phrase_id \in phrase_ids_file}

ScoreLinesOf(id) ==
    IF labels_file = None THEN {}
    ELSE {i \in 2..Len(labels_file[1]) : labels_file[1][i].phrase_id = id}

Last(S) == CHOOSE i \in S : \A j \in S : j <= i

LabelsAsClaimed(ex) ==
    \A j \in 1..Len(ex) :
        LET lines == ScoreLinesOf(ex[j].example_id)
        IN  IF lines = {} THEN ex[j].label = None
            ELSE LET score == labels_file[1][Last(lines)].score[1]
                 IN  ex[j].label = Some(StepLabel(score))

\* C9 as stated: one Example per dictionary phrase with a permitted id, its
\* tokens the split of that phrase on spaces
C9_Original ==
    (rd_out # None /\ rd_out[1].exc = "") =>
        LET ex == rd_out[1].val
        IN  /\ Len(ex) = Cardinality(PermittedLines)
            /\ \A j \in 1..Len(ex) : ex[j].example_id \in phrase_ids_file
            /\ \A i \in PermittedLines : \E j \in 1..Len(ex) :
                  /\ ex[j].example_id = dictionary_file[i].phrase_id
                  /\ ex[j].tokens = split(dictionary_file[i].phrase, " ")
            /\ LabelsAsClaimed(ex)

\* C9 (amended): when read_dictionary_txt_with_phrase_ids returns, it gives
\* one Example per distinct permitted phrase id of the dictionary and none for
\* any other id; the example is that of the last dictionary line with the id,
\* its tokens the split on single spaces of the phrase after "(" was replaced
\* by "-LRB" and ")" by "-RRB-"; the label is sentiment2label of the score of
\* the last score line (first line of the label file skipped) with that id,
\* and None when there is no such line or no label file.
C9_Examples ==
    (rd_out # None /\ rd_out[1].exc = "") =>
        LET ex == rd_out[1].val
            ids == {dictionary_file[i].phrase_id : i \in PermittedLines}
        IN  /\ Len(ex) = Cardinality(ids)
            /\ {ex[j].example_id : j \in 1..Len(ex)} = ids
            /\ \A j \in 1..Len(ex) :
                  LET i == Last({k \in PermittedLines :
                              dictionary_file[k].phrase_id = ex[j].example_id})
                      p == dictionary_file[i].phrase
                  IN  ex[j].tokens =
                          split(replace(replace(p, "(", LRB), ")", RRB), " ")
            /\ LabelsAsClaimed(ex)
            /\ labels_file = None => \A j \in 1..Len(ex) : ex[j].label = None

\* C9 witness: a labelled read that drops a line with an id outside the set
\* and labels the remaining, parenthesised phrase 0
C9_Witness ==
    /\ rd_out # None /\ rd_out[1].exc = ""
    /\ labels_file # None
    /\ Len(dictionary_file) = 2 /\ Cardinality(PermittedLines) = 1
    /\ Len(rd_out[1].val) = 1
    /\ rd_out[1].val[1].label = Some(0)
    /\ rd_out[1].val[1].tokens = <<LRB, <<"a">> \o RRB>>

\* helpers of C5, C6, C7, C10: the calls of load_embeddings that returned,
\* the words on the lines of a file, a vocabulary's keys and density
Returned == {k \in 1..Len(le_calls) : le_calls[k].out.exc = ""}
NewVocab(k) == le_calls[k].out.val.new_vocab
Embeddings(k) == le_calls[k].out.val.embeddings
WordsOf(lines) == {lines[i].word : i \in 1..Len(lines)}
Keys(d) == {d[i][1] : i \in 1..Len(d)}
Dense(d) ==
    /\ \A i, j \in 1..Len(d) : d[i][1] = d[j][1] => i = j
    /\ {d[i][2] : i \in 1..Len(d)} = 0..(Len(d) - 1)
    /\ \A i, j \in 1..Len(d) : d[i][2] = d[j][2] => i = j

\* C5: a call of load_embeddings(cache=True) that returns with no cache
\* present, followed by a call on the same path with the same candidate
\* vocabulary, which reads the cache file: the second call returns the same
\* vocabulary and the same matrix as the first.
C5_CacheRoundTrip ==
    \A k \in 1..(Len(le_calls) - 1) :
        (/\ le_calls[k].cache_before = None
         /\ le_calls[k].out.exc = ""
         /\ le_calls[k + 1].vocab = le_calls[k].vocab)
        => /\ le_calls[k + 1].read = "cache_path"
           /\ le_calls[k + 1].out = le_calls[k].out

\* C5 witness: the first call filtered a line out of a three-line file and
\* returned three entries, the second call read the cache and returned
C5_Witness ==
    /\ Len(le_calls) = 2
    /\ Len(emb_file) = 3
    /\ le_calls[1].cache_before = None /\ le_calls[1].out.exc = ""
    /\ Len(NewVocab(1)) = 3
    /\ le_calls[2].vocab = le_calls[1].vocab
    /\ le_calls[2].read = "cache_path"
    /\ le_calls[2].out.exc = ""
    /\ Len(le_calls[2].cache_before[1]) = 2

\* first position of a word in the data that build_vocab walks
FirstPos(w) ==
    LET ts == AllTokens(datasets)
    IN  CHOOSE i \in 1..Len(ts) : ts[i] = w /\ \A j \in 1..(i - 1) : ts[j] # w

\* the build_vocab half of C6: dense ids, PAD 0, UNK 1, then first-encounter
\* order
ProvisionalVocabOk ==
    vocab # None =>
        LET v == vocab[1]
            words == Range(AllTokens(datasets)) \ {PAD_TOKEN, UNK_TOKEN}
        IN  /\ Dense(v)
            /\ Keys(v) = words \cup {PAD_TOKEN, UNK_TOKEN}
            /\ DictGet(v, PAD_TOKEN) = 0
            /\ DictGet(v, UNK_TOKEN) = 1
            /\ \A w1, w2 \in words :
                  FirstPos(w1) < FirstPos(w2) => DictGet(v, w1) < DictGet(v, w2)

\* C6: every vocabulary the program produces - build_vocab's and the one
\* load_embeddings returns - is a dense permutation of [0, size) with PAD at
\* id 0; build_vocab's has UNK at id 1 and the rest in first-encounter order.
C6_VocabDensePad0 ==
    /\ ProvisionalVocabOk
    /\ \A k \in Returned :
          /\ Dense(NewVocab(k))
          /\ DictHas(NewVocab(k), PAD_TOKEN)
          /\ DictGet(NewVocab(k), PAD_TOKEN) = 0

\* what holds of the code instead: the returned vocabulary is dense with UNK
\* at id 0, and PAD is in it only with a line of its own in the file read
C6_FinalVocabUnk0 ==
    /\ ProvisionalVocabOk
    /\ \A k \in Returned :
          /\ Dense(NewVocab(k))
          /\ DictGet(NewVocab(k), UNK_TOKEN) = 0
          /\ DictHas(NewVocab(k), PAD_TOKEN) =>
                /\ DictGet(NewVocab(k), PAD_TOKEN) >= 1
                /\ PAD_TOKEN \in WordsOf(emb_file)

\* C7: whenever load_embeddings returns, the matrix has as many rows as the
\* returned vocabulary has entries, row 0 is the zero vector, and the row at
\* the id of every token other than UNK holds the vector of that token's line
\* in the embedding file.
C7_MatrixMatchesVocab ==
    \A k \in Returned :
        LET nv == NewVocab(k)
            m == Embeddings(k)
        IN  /\ Len(m) = Len(nv)
            /\ m[1] = Zero
            /\ \A i \in 1..Len(nv) :
                  nv[i][1] # UNK_TOKEN =>
                      /\ nv[i][1] \in WordsOf(emb_file)
                      /\ \A l \in 1..Len(emb_file) :
                            emb_file[l].word = nv[i][1]
                                => m[nv[i][2] + 1] = emb_file[l].row

\* C7 witness: a returned call on a file that lists one token twice and
\* another, matched token once
C7_Witness ==
    \E k \in Returned :
        /\ Len(emb_file) = 3
        /\ emb_file[1].word = emb_file[3].word
        /\ emb_file[1].row # emb_file[3].row
        /\ Len(NewVocab(k)) = 2
        /\ Embeddings(k) = <<Zero, emb_file[2].row>>

\* the positions <<example, token>> of a data collection
Positions(data) ==
    UNION {{<<e, p>> : p \in 1..Len(data[e].tokens)} : e \in 1..Len(data)}

\* C10: a token (other than the reserved UNK entry) of the candidate
\* vocabulary with no line in the embedding file is absent from the
\* vocabulary load_embeddings returns; convert2ids with that vocabulary gives
\* every token of it its own id and every other token the UNK id, and its
\* unknown counter is the number of occurrences it gave the UNK id for want
\* of an entry.
C10_UnkSubstitution ==
    /\ \A k \in Returned :
          \A w \in Keys(le_calls[k].vocab) \ {UNK_TOKEN} :
              w \notin WordsOf(emb_file) => ~DictHas(NewVocab(k), w)
    /\ conv_out # None =>
          LET nv == NewVocab(Len(le_calls))
          IN  \A d \in 1..Len(datasets) :
                LET before == datasets[d]
                    after == conv_out[1][d].data
                    missing == {x \in Positions(before) :
                                   ~DictHas(nv, before[x[1]].tokens[x[2]])}
                IN  /\ Len(after) = Len(before)
                    /\ \A e \in 1..Len(before) :
                          Len(after[e].tokens) = Len(before[e].tokens)
                    /\ \A x \in Positions(before) :
                          after[x[1]].tokens[x[2]] =
                              IF x \in missing THEN DictGet(nv, UNK_TOKEN)
                              ELSE DictGet(nv, before[x[1]].tokens[x[2]])
                    /\ conv_out[1][d].unknown = Cardinality(missing)

\* C10 witness: "b" is in the candidate vocabulary and not in the file, so
\* the first collection converts to <<id of a, UNK>> with one unknown
C10_Witness ==
    /\ conv_out # None
    /\ Len(datasets) = 3
    /\ "b" \notin WordsOf(emb_file) /\ "a" \in WordsOf(emb_file)
    /\ DictHas(le_calls[Len(le_calls)].vocab, "b")
    /\ conv_out[1][1].data[1].tokens = <<1, 0>>
    /\ conv_out[1][1].unknown = 1
    /\ conv_out[1][2].unknown = 1

\* helpers of C1: the examples a batch was built from, the widths of its rows
Sum(f, n) ==
    LET RECURSIVE upto(_)
        upto(k) == IF k = 0 THEN 0 ELSE f[k] + upto(k - 1)
    IN  upto(n)

BatchSize(b) == Len(b.example_ids)

\* C1: one pass of batch_iterator(dataset, B, forever=False) over S examples
\* yields ceil(S/B) batches and stops; their sizes sum to S, every index
\* 0..S-1 is in exactly one batch exactly once, every batch but the last has
\* B examples, and the rows of a batch's grid all have the width of the
\* longest token sequence of the batch.
C1_OnePassPartition ==
    (run_pc = "exit" /\ ~it_in.two /\ ~it_in.forever) =>
        LET S == dataset_size
            B == it_in.batch_size
            n == Len(yielded)
            dataset == it_in.datasets[1]
        IN  /\ it.pc = "stopped" /\ cur = None
            /\ n = (S + B - 1) \div B
            /\ Sum([b \in 1..n |-> BatchSize(yielded[b])], n) = S
            /\ \A x \in 0..(S - 1) :
                  Cardinality({bk \in UNION {{<<b, k>> : k \in 1..Len(yielded[b].idx)}
                                                : b \in 1..n} :
                                  yielded[bk[1]].idx[bk[2]] = x}) = 1
            /\ \A b \in 1..(n - 1) : BatchSize(yielded[b]) = B
            /\ \A b \in 1..n :
                  LET y == yielded[b]
                      longest == Max({Len(dataset[y.idx[k] + 1].tokens) :
                                         k \in 1..Len(y.idx)})
                  IN  /\ Len(y.idx) = BatchSize(y) /\ Len(y.data) = BatchSize(y)
                      /\ BatchSize(y) >= 1
                      /\ \A k \in 1..BatchSize(y) :
                            /\ y.example_ids[k] = dataset[y.idx[k] + 1].example_id
                            /\ Len(y.data[k]) = longest
                            /\ \A t \in 1..Len(dataset[y.idx[k] + 1].tokens) :
                                  y.data[k][t] = dataset[y.idx[k] + 1].tokens[t]

\* C1 witness: three examples in batches of two: a full batch padded to
\* width 3 and a remainder batch of one example of width 1
C1_Witness ==
    /\ run_pc = "exit" /\ ~it_in.forever
    /\ dataset_size = 3 /\ it_in.batch_size = 2
    /\ Len(yielded) = 2
    /\ BatchSize(yielded[1]) = 2 /\ BatchSize(yielded[2]) = 1
    /\ Len(yielded[1].data[1]) = 3 /\ Len(yielded[1].data[2]) = 3
    /\ yielded[1].data[2][3] = 0
    /\ Len(yielded[2].data[1]) = 1

\* helpers of C2: the validation passes that beat every earlier one and 0
RECURSIVE StrictMaxima(_, _)
StrictMaxima(vals, best) ==
    IF vals = << >> THEN << >>
    ELSE IF Head(vals)[2] > best
         THEN <<Head(vals)>> \o StrictMaxima(Tail(vals), Head(vals)[2])
         ELSE StrictMaxima(Tail(vals), best)

Accuracies(vals) == [k \in 1..Len(vals) |-> vals[k][2]]

\* C2: in the training loop a checkpoint is written after a validation pass
\* exactly when its accuracy is strictly greater than the best so far
\* (0.0 at first), best then becomes that accuracy, and nothing else writes
\* a checkpoint: the writes are the strict running maxima of the validation
\* accuracies, three of them for [0.40, 0.55, 0.50, 0.60].
C2_CheckpointOnStrictBest ==
    LET decided == IF run_pc = "ckpt"
                   THEN SubSeq(ran.vals, 1, Len(ran.vals) - 1) ELSE ran.vals
        writes == ran.writes
    IN  /\ writes = StrictMaxima(decided, 0)
        /\ IF writes = << >>
           THEN ckpt_file = None /\ best_val_acc = 0
           ELSE /\ ckpt_file = Some([step |-> writes[Len(writes)][1],
                                     val_acc |-> writes[Len(writes)][2]])
                /\ best_val_acc = writes[Len(writes)][2]
        /\ Accuracies(decided) = <<40, 55, 50, 60>> => Len(writes) = 3
        /\ \A k \in 1..Len(decided) :
              (k > 1 /\ \E j \in 1..(k - 1) : decided[j][2] >= decided[k][2])
                  => decided[k] \notin Range(writes)

\* C2 witness: the accuracies 0.40, 0.55, 0.50, 0.60 at steps 0..3 and the
\* three writes at steps 0, 1 and 3
C2_Witness ==
    /\ run_pc = "incr"
    /\ Accuracies(ran.vals) = <<40, 55, 50, 60>>
    /\ ran.writes = << <<0, 40>>, <<1, 55>>, <<3, 60>> >>
    /\ ckpt_file = Some([step |-> 3, val_acc |-> 60])

\* the safety half of C3: no forward pass, optimizer step, validation or
\* checkpoint has step > N, the optimizer steps are 0, 1, 2, ... in order, and
\* at the exit they are exactly 0..N, the exit taken at draw N + 2
C3_StepsWithinMax ==
    LET N == options.max_steps
    IN  /\ \A k \in 1..Len(ran.opt_steps) : ran.opt_steps[k] = k - 1 /\ k - 1 <= N
        /\ \A k \in 1..Len(ran.vals) : ran.vals[k][1] <= N
        /\ \A k \in 1..Len(ran.writes) : ran.writes[k][1] <= N
        /\ run_pc \in {"train", "eval", "ckpt", "incr"} => step <= N
        /\ run_pc = "exit" =>
              /\ step = N + 1
              /\ Len(ran.opt_steps) = N + 1
              /\ ran.draws = N + 2

\* C3: a training run with max_steps = N on a non-empty training set ends,
\* and it ends at the first batch drawn with step > N: nothing of the loop
\* body runs with step > N and the steps that are executed are exactly 0..N.
C3_TrainingTerminates == []C3_StepsWithinMax /\ <>(run_pc = "exit")

\* C3 witness: the exit of a run with max_steps = 3 after steps 0, 1, 2, 3
C3_Witness ==
    /\ run_pc = "exit"
    /\ options.max_steps = 3
    /\ ran.opt_steps = <<0, 1, 2, 3>>
    /\ step = 4

\* helpers of C4
IdsOf(dataset) == {dataset[k].example_id : k \in 1..Len(dataset)}
LastPred(id) ==
    ran.preds[Last({k \in 1..Len(ran.preds) : ran.preds[k][1] = id})][2]

\* C4: an eval-only run loads the checkpoint once, trains and validates
\* nothing and writes no checkpoint, passes once over the test set, writes
\* one id|label line per distinct example id - the prediction of the id's
\* last occurrence in iteration order - and ends.
C4_EvalOnly ==
    options # << >> /\ options.eval_only_mode =>
        /\ ran.opt_steps = << >> /\ ran.vals = << >> /\ ran.writes = << >>
        /\ ran.draws = 0
        /\ run_pc \notin {"draw", "train", "eval", "ckpt", "incr"}
        /\ ckpt_file \in {None, Some(SavedCheckpoint)}
        /\ run_pc # "exit" => predictions_file = None
        /\ ran.loads <= 1
        /\ run_pc = "exit" =>
              LET test == splits.test[1]
                  lines == predictions_file[1]
              IN  /\ ran.loads = 1
                  /\ ckpt_file = Some(SavedCheckpoint)
                  /\ ~it_in.forever /\ it.pass = 1 /\ it.pc = "stopped"
                  /\ Len(ran.preds) = Len(test)
                  /\ Len(lines) = Cardinality(IdsOf(test))
                  /\ {lines[k][1] : k \in 1..Len(lines)} = IdsOf(test)
                  /\ \A k \in 1..Len(lines) : lines[k][2] = LastPred(lines[k][1])

\* C4 witness: two test examples with the same id and different predictions
\* give one line, with the prediction of the later one
C4_Witness ==
    /\ run_pc = "exit" /\ options.eval_only_mode
    /\ Len(splits.test[1]) = 2
    /\ Len(ran.preds) = 2
    /\ ran.preds[1][1] = ran.preds[2][1]
    /\ ran.preds[1][2] # ran.preds[2][2]
    /\ predictions_file = Some(<< <<ran.preds[2][1], ran.preds[2][2]>> >>)

\* helpers of C11: the batches of the current pass, the one in hand last,
\* and the slice of the current order that batch b of a pass is cut from
PassBatches == IF cur = None THEN yielded ELSE Append(yielded, cur[1])
PassSlice(b) ==
    Slice(it.order, (b - 1) * it_in.batch_size, b * it_in.batch_size)

\* C11: every batch of batches_iterator applies one slice of the current
\* order to both datasets: row j of channel 0 and row j of channel 1 are the
\* examples at the same dataset index, so their example ids agree, and the
\* labels and example_ids returned are those of the same rows; in every
\* pass, also after the order is redrawn in forever mode.
C11_ChannelsAligned ==
    it_in.two =>
        \A b \in 1..Len(PassBatches) :
            LET y == PassBatches[b]
                idx == PassSlice(b)
                n == Len(idx)
            IN  /\ n >= 1
                /\ Len(y.data) = 2
                /\ Len(y.example_ids) = n /\ Len(y.labels.values) = n
                /\ \A c \in 1..2 :
                      /\ Len(y.data[c]) = n
                      /\ \A j \in 1..n :
                            LET ex == it_in.datasets[c][idx[j] + 1]
                            IN  /\ SubSeq(y.data[c][j], 1, Len(ex.tokens)) = ex.tokens
                                /\ \A t \in (Len(ex.tokens) + 1)..Len(y.data[c][j]) :
                                      y.data[c][j][t] = 0
                                /\ y.example_ids[j] = ex.example_id
                                /\ y.labels.values[j] =
                                      IF y.labels.tensor THEN ex.label[1] ELSE ex.label

\* C11 witness: in the second pass of a forever iterator, a batch of two
\* different examples taken in descending index order, the two channels
\* holding the two conversions of the same examples
C11_Witness ==
    /\ it_in.two /\ it_in.forever /\ it.pass = 2
    /\ Len(yielded) >= 1
    /\ LET y == yielded[1]
       IN  /\ Len(y.example_ids) = 2
           /\ y.idx[1] > y.idx[2]
           /\ y.example_ids[1] # y.example_ids[2]
           /\ y.data[1] # y.data[2]
           /\ y.data[1][1] # y.data[1][2]

\* helpers of C12: the lines of the embedding file a candidate vocabulary
\* matches, in file order, and whether a call returned
MatchedLines(v) ==
    LET Matches(line) == DictHas(v, line.word)
    IN  SelectSeq(emb_file, Matches)
Succeeded(call) == call.out.exc = ""

\* the first half of C12: a call made while no cache exists reads the
\* original file; it creates the cache, holding its matched lines in file
\* order, if it succeeds, and leaves no cache behind if it fails
C12_CreatedBySuccessOnly ==
    \A k \in 1..Len(le_calls) :
        LET call == le_calls[k]
        IN  call.cache_before = None =>
                /\ call.read = "path"
                /\ call.cache_after =
                      IF Succeeded(call) THEN Some(MatchedLines(call.vocab)) ELSE None

\* the second half of C12: once the cache exists a call reads it and leaves
\* it unchanged, whatever its candidate vocabulary, so a candidate token
\* that is in the original file but not in the cache is not in the
\* vocabulary returned
C12_CacheKept ==
    /\ \A k \in 1..Len(le_calls) :
          LET call == le_calls[k]
          IN  /\ k > 1 => call.cache_before = le_calls[k - 1].cache_after
              /\ call.cache_before # None =>
                    /\ call.read = "cache_path"
                    /\ call.cache_after = call.cache_before
                    /\ Succeeded(call) =>
                          \A w \in WordsOf(emb_file) \ WordsOf(call.cache_before[1]) :
                              ~DictHas(call.out.val.new_vocab, w)
    /\ le_calls # << >> => cache_file = le_calls[Len(le_calls)].cache_after

\* C12: over the calls of load_embeddings with cache=True on one path, the
\* cache is created only by the first successful read made while there is
\* none and holds that call's matched lines in file order, a failing call
\* (UNK token in the file, or the row-count check) leaves no cache behind,
\* and once the cache exists every call reads it and leaves it unchanged.
C12_CacheFrameEffects == C12_CreatedBySuccessOnly /\ C12_CacheKept

\* helpers of C13: the events of training step s up to and including the
\* optimizer step and the log line, those of its validation (ck: the pass
\* ended in a checkpoint write), and the steps of the validation passes
UpToLog(s) ==
    <<"draw", "forward", "zero_grad", "backward", "opt_step">>
        \o (IF s % options.log_every = 0 THEN <<"log">> ELSE << >>)
Validation(s, ck) ==
    IF s % options.eval_every = 0
    THEN <<"validate">> \o (IF ck THEN <<"checkpoint">> ELSE << >>)
    ELSE << >>
Wrote(s) == ran.writes # << >> /\ ran.writes[Len(ran.writes)][1] = s
ValSteps == [k \in 1..Len(ran.vals) |-> ran.vals[k][1]]

====
